---- MODULE Spec2Model ----
(***************************************************************************)
(* Model of the chyron ticker engine (src/src/ticker.rs): the headline     *)
(* buffer with its segment map, the scroll offset advanced by tick, and    *)
(* the fair-rotation bookkeeping done by set_headlines and tick.           *)
(*                                                                         *)
(* Strings are sequences of one-character strings.  An Option<T> is a      *)
(* sequence of length 0 (None) or 1 (Some).  The f64 offset is kept in     *)
(* fixed point: one unit is 1/Sub of a character, and a tick's delta is    *)
(* given in units of 1/Sub of a second, so delta * speed is an advance in  *)
(* the same unit as the offset.                                            *)
(***************************************************************************)
EXTENDS Integers, Sequences, FiniteSets, TLC

\* ------------------------------------------------------------------ bounds
MaxHeadlines == 3
MaxDelta == 6
MaxSpeed == 1
MaxOffset == 4
MaxWidth == 5
MaxDate == 2
Sub == 2

\* --------------------------------------------------------------- inputs
None == <<>>
Some(x) == <<x>>

Items ==
  { [title |-> <<"a">>,      url |-> None,          source |-> <<"t">>, published |-> None],
    [title |-> <<"b", "c">>, url |-> Some(<<"x">>), source |-> <<"s">>, published |-> Some(MaxDate)],
    [title |-> <<"d">>,      url |-> Some(<<"y">>), source |-> <<"s">>, published |-> None] }

\* the lists of at most n headlines in which no headline occurs twice
RECURSIVE SeqsUpTo(_)
SeqsUpTo(n) ==
  IF n = 0 THEN { <<>> }
  ELSE LET shorter == SeqsUpTo(n - 1)
           longest == { t \in shorter : Len(t) = n - 1 }
       IN shorter \cup
          UNION { { Append(t, h) : h \in { g \in Items : \A i \in DOMAIN t : t[i] # g } } :
                  t \in longest }

HeadlineLists == SeqsUpTo(MaxHeadlines)
Speeds == 0..MaxSpeed
Deltas == 0..MaxDelta
Widths == 0..MaxWidth
\* (rotation mode, delimiter, show_source) of the configurations explored
Configs ==
  { << "Fair", <<"|">>, FALSE >>,
    << "Fair", <<>>, FALSE >>,
    << "Continuous", <<"|">>, TRUE >> }
NowValues == 1..(MaxDate + 1)

SortModes == { "Random", "BySource", "ByDate", "ByDateAsc" }

Placeholder ==
  <<"N", "o", " ", "h", "e", "a", "d", "l", "i", "n", "e", "s", " ", "a", "v",
    "a", "i", "l", "a", "b", "l", "e", ".", " ", "C", "h", "e", "c", "k", " ",
    "y", "o", "u", "r", " ", "f", "e", "e", "d", " ", "c", "o", "n", "f", "i",
    "g", "u", "r", "a", "t", "i", "o", "n", ".">>

\* ---------------------------------------------------------------- state
VARIABLES
  headlines,             \* Vec<Headline>
  ticker_text,           \* String
  ticker_chars,          \* Vec<char>
  segments,              \* Vec<TickerSegment>
  offset,                \* f64, in units of 1/Sub character
  speed,                 \* u32
  delimiter,             \* String
  show_source,           \* bool
  paused,                \* bool
  rotation_mode,         \* RotationMode
  shown_urls,            \* HashSet<String>
  current_headline_idx,  \* usize
  current_headline_end,  \* usize
  op,                    \* the last of new, set_headlines and tick to return
                         \* (pause, resume, toggle_pause and set_speed leave it)
  sorted,                \* set_headlines: the local list after the sort
  shown_before,          \* set_headlines: shown_urls when it was entered
  passed                 \* segments whose end the offset moved past in this generation

\* feeds.rs, parse_feeds_file
VARIABLES
  feeds_file,            \* the file at path: None if unreadable, else its content
  feeds_lines,           \* content.lines(): the lines not yet consumed
  feeds_urls,            \* the urls collected so far
  feeds_result           \* "idle", "reading", "Ok" or "Err"

\* app.rs, App
VARIABLES
  pc,                    \* the position of the driver task
  ret,                   \* refresh_feeds: the position it returns to
  guards,                \* the guards on the ticker lock the task holds
  calls,                 \* the latest ticker methods called, and the guard held
  running,               \* bool
  terminal_focused,      \* bool
  mouse_y,               \* Option<u16>
  ticker_row,            \* u16
  pause_mode,            \* config.pause_mode
  show_status_bar,       \* config.show_status_bar
  refresh_shown,         \* refresh_feeds: the local shown
  all_headlines          \* refresh_feeds: the local all_headlines

ticker_vars == << headlines, ticker_text, ticker_chars, segments, offset, speed,
                  delimiter, show_source, paused, rotation_mode, shown_urls,
                  current_headline_idx, current_headline_end, op, sorted,
                  shown_before, passed >>

feeds_vars == << feeds_file, feeds_lines, feeds_urls, feeds_result >>

app_vars == << running, terminal_focused, mouse_y, ticker_row, pause_mode,
               show_status_bar >>

refresh_vars == << ret, refresh_shown, all_headlines >>

driver_vars == << pc, guards, calls, app_vars, refresh_vars >>

vars == << ticker_vars, feeds_vars, driver_vars >>

config == << delimiter, show_source, rotation_mode >>

\* ------------------------------------------------------------- the sort
Perms(n) == { f \in [1..n -> 1..n] : \A i, j \in 1..n : f[i] = f[j] => i = j }

Permute(hs, f) == [ i \in 1..Len(hs) |-> hs[f[i]] ]

CharCode(c) ==
  CASE c = "a" -> 97 [] c = "b" -> 98 [] c = "c" -> 99 [] c = "d" -> 100
    [] c = "s" -> 115 [] c = "t" -> 116 [] c = "x" -> 120 [] c = "y" -> 121
    [] c = "|" -> 124 [] c = "[" -> 91 [] c = "]" -> 93 [] c = " " -> 32

\* str::cmp: byte-wise lexicographic order
RECURSIVE StrLess(_, _)
StrLess(a, b) ==
  IF b = <<>> THEN FALSE
  ELSE IF a = <<>> THEN TRUE
  ELSE IF CharCode(Head(a)) # CharCode(Head(b)) THEN CharCode(Head(a)) < CharCode(Head(b))
  ELSE StrLess(Tail(a), Tail(b))

\* sort_by(|a, b| a.source.cmp(&b.source)) is a stable sort
SortedBySource(hs, f) ==
  \A i, j \in 1..Len(hs) : i < j =>
     /\ ~StrLess(hs[f[j]].source, hs[f[i]].source)
     /\ (~StrLess(hs[f[i]].source, hs[f[j]].source) => f[i] < f[j])

\* published.unwrap_or(Utc::now())
DateOf(h, now) == IF h.published = None THEN now ELSE h.published[1]

\* sort_by on the dates: a headline without a date compares as the clock
\* reading taken at that comparison, so headlines whose dates tie keep their
\* order only when both carry a date
SortedByDate(hs, f, now, newest_first) ==
  \A i, j \in 1..Len(hs) : i < j =>
     LET a == hs[f[i]]
         b == hs[f[j]]
     IN /\ IF newest_first THEN DateOf(a, now) >= DateOf(b, now)
                           ELSE DateOf(a, now) =< DateOf(b, now)
        /\ (DateOf(a, now) = DateOf(b, now) /\ a.published # None /\ b.published # None)
              => f[i] < f[j]

SortResults(hs, sort) ==
  LET P == Perms(Len(hs))
  IN CASE sort = "Random"    -> { Permute(hs, f) : f \in P }
       [] sort = "BySource"  -> { Permute(hs, f) : f \in { g \in P : SortedBySource(hs, g) } }
       [] sort = "ByDate"    -> { Permute(hs, f) :
                                    f \in { g \in P : \E now \in NowValues : SortedByDate(hs, g, now, TRUE) } }
       [] sort = "ByDateAsc" -> { Permute(hs, f) :
                                    f \in { g \in P : \E now \in NowValues : SortedByDate(hs, g, now, FALSE) } }

\* the results of the sort of every input, tabulated once
SortOutcomes == [ hs \in HeadlineLists, sort \in SortModes |-> SortResults(hs, sort) ]

\* every list the sort can hand to the rest of set_headlines
SortedLists ==
  UNION { SortOutcomes[input, sort] : input \in HeadlineLists, sort \in SortModes }

\* ------------------------------------------------------- fair rotation
\* the identity key: the link if present, else the title
Key(h) == IF h.url # None THEN h.url[1] ELSE h.title

is_headline_shown(shown, h) ==
  IF h.url # None THEN h.url[1] \in shown ELSE h.title \in shown

Unshown(hs, shown) == SelectSeq(hs, LAMBDA h : ~is_headline_shown(shown, h))

Shown(hs, shown) == SelectSeq(hs, LAMBDA h : is_headline_shown(shown, h))

all_urls(hs) == { hs[i].url[1] : i \in { j \in DOMAIN hs : hs[j].url # None } }

\* a clean-up that drops nothing
retain_keep_all(shown, keep) == shown

\* line 104: only the keys that are links of the new list are kept
retain(shown, keep) == { url \in shown : url \in keep }

\* an order that replays the shown headlines first
FairOrder_shown_first(unshown, shownHs) == shownHs \o unshown

\* an order that leaves the shown headlines out
FairOrder_unshown_only(unshown, shownHs) ==
  IF unshown = <<>> THEN shownHs ELSE unshown

\* lines 106-114: the new order
FairOrder(unshown, shownHs) ==
  IF unshown = <<>> /\ shownHs # <<>> THEN shownHs ELSE unshown \o shownHs

\* a shown-set that is never cleared
FairShown_no_reset(unshown, shownHs, retained) == retained

\* lines 104-108: the new shown-set
FairShown(unshown, shownHs, retained) ==
  IF unshown = <<>> /\ shownHs # <<>> THEN {} ELSE retained

\* lines 91-115: the order and the shown-set that set_headlines settles on
Reconcile(hs, shown, mode) ==
  IF mode = "Fair"
  THEN LET unshown  == Unshown(hs, shown)
           shownHs  == Shown(hs, shown)
           retained == retain(shown, all_urls(unshown \o shownHs))
       IN [headlines |-> FairOrder(unshown, shownHs),
           shown_urls |-> FairShown(unshown, shownHs, retained)]
  ELSE [headlines |-> hs, shown_urls |-> shown]

\* ----------------------------------------------------- text compositor
\* a prefix without the space after the bracket
display_text_no_space(h, with_source) ==
  IF with_source THEN <<"[">> \o h.source \o <<"]">> \o h.title ELSE h.title

\* lines 166-170
display_text(h, with_source) ==
  IF with_source THEN <<"[">> \o h.source \o <<"]", " ">> \o h.title ELSE h.title

\* a loop that takes the segment start before the delimiter is appended
RECURSIVE rebuild_loop_start_early(_, _, _, _, _, _, _)
rebuild_loop_start_early(hs, delim, with_source, idx, text, pos, segs) ==
  IF idx > Len(hs) THEN [text |-> text, segments |-> segs]
  ELSE LET text1 == IF idx > 1 THEN text \o delim ELSE text
           pos1  == IF idx > 1 THEN pos + Len(delim) ELSE pos
           disp  == display_text(hs[idx], with_source)
           pos2  == pos1 + Len(disp)
       IN rebuild_loop_start_early(hs, delim, with_source, idx + 1, text1 \o disp, pos2,
                       Append(segs, [start |-> pos, end |-> pos2, url |-> hs[idx].url]))

\* lines 154-180
RECURSIVE rebuild_loop(_, _, _, _, _, _, _)
rebuild_loop(hs, delim, with_source, idx, text, pos, segs) ==
  IF idx > Len(hs) THEN [text |-> text, segments |-> segs]
  ELSE LET text1 == IF idx > 1 THEN text \o delim ELSE text
           pos1  == IF idx > 1 THEN pos + Len(delim) ELSE pos
           disp  == display_text(hs[idx], with_source)
           pos2  == pos1 + Len(disp)
       IN rebuild_loop(hs, delim, with_source, idx + 1, text1 \o disp, pos2,
                       Append(segs, [start |-> pos1, end |-> pos2, url |-> hs[idx].url]))

\* a buffer without the trailing delimiter
rebuild_ticker_text_no_trailer(hs, delim, with_source, old_chars) ==
  IF hs = <<>>
  THEN [ticker_text |-> Placeholder, ticker_chars |-> old_chars, segments |-> <<>>]
  ELSE LET r == rebuild_loop(hs, delim, with_source, 1, <<>>, 0, <<>>)
       IN [ticker_text |-> r.text, ticker_chars |-> r.text, segments |-> r.segments]

\* with no headline only ticker_text is replaced; ticker_chars keeps its value
rebuild_ticker_text(hs, delim, with_source, old_chars) ==
  IF hs = <<>>
  THEN [ticker_text |-> Placeholder, ticker_chars |-> old_chars, segments |-> <<>>]
  ELSE LET r == rebuild_loop(hs, delim, with_source, 1, <<>>, 0, <<>>)
       IN [ticker_text |-> r.text \o delim, ticker_chars |-> r.text \o delim,
           segments |-> r.segments]

\* an offset that is never reset
ResetOffset_never(off, chars) == off

\* lines 120-124
ResetOffset(off, chars) ==
  IF Len(chars) > 0 /\ off >= Len(chars) * Sub THEN 0 ELSE off

\* lines 128-132 and 220-224
FirstEnd(segs) == IF segs # <<>> THEN segs[1].end ELSE 0

\* ---------------------------------------------------------------- tick
Floor(off) == off \div Sub

\* lines 196-202
Advance(off, amount, len) ==
  IF off + amount >= len THEN off + amount - len ELSE off + amount

mark_current_headline_shown(shown, hs, idx) ==
  IF idx < Len(hs) THEN shown \cup { Key(hs[idx + 1]) } ELSE shown

\* a pointer that moves on without a new boundary
advance_to_next_headline_keeps_end(idx, end, segs) ==
  [idx |-> idx + 1, end |-> end]

advance_to_next_headline(idx, end, segs) ==
  [idx |-> idx + 1,
   end |-> IF idx + 1 < Len(segs) THEN segs[idx + 2].end ELSE end]

\* tracking that does not look at the rotation mode
Track_any_mode(mode, hs, segs, shown, idx, end, old_offset, new_offset) ==
  IF hs # <<>>
  THEN IF new_offset > old_offset
       THEN IF old_offset < end /\ new_offset >= end
            THEN LET nxt == advance_to_next_headline(idx, end, segs)
                 IN [shown_urls |-> mark_current_headline_shown(shown, hs, idx),
                     idx |-> nxt.idx, end |-> nxt.end]
            ELSE [shown_urls |-> shown, idx |-> idx, end |-> end]
       ELSE IF new_offset < old_offset
            THEN [shown_urls |-> mark_current_headline_shown(shown, hs, idx),
                  idx |-> 0, end |-> FirstEnd(segs)]
            ELSE [shown_urls |-> shown, idx |-> idx, end |-> end]
  ELSE [shown_urls |-> shown, idx |-> idx, end |-> end]

\* tracking that leaves the pointer where it is when the offset wraps
Track_no_reset(mode, hs, segs, shown, idx, end, old_offset, new_offset) ==
  IF mode = "Fair" /\ hs # <<>>
  THEN IF new_offset > old_offset
       THEN IF old_offset < end /\ new_offset >= end
            THEN LET nxt == advance_to_next_headline(idx, end, segs)
                 IN [shown_urls |-> mark_current_headline_shown(shown, hs, idx),
                     idx |-> nxt.idx, end |-> nxt.end]
            ELSE [shown_urls |-> shown, idx |-> idx, end |-> end]
       ELSE IF new_offset < old_offset
            THEN [shown_urls |-> mark_current_headline_shown(shown, hs, idx),
                  idx |-> idx, end |-> end]
            ELSE [shown_urls |-> shown, idx |-> idx, end |-> end]
  ELSE [shown_urls |-> shown, idx |-> idx, end |-> end]

\* lines 204-226
Track(mode, hs, segs, shown, idx, end, old_offset, new_offset) ==
  IF mode = "Fair" /\ hs # <<>>
  THEN IF new_offset > old_offset
       THEN IF old_offset < end /\ new_offset >= end
            THEN LET nxt == advance_to_next_headline(idx, end, segs)
                 IN [shown_urls |-> mark_current_headline_shown(shown, hs, idx),
                     idx |-> nxt.idx, end |-> nxt.end]
            ELSE [shown_urls |-> shown, idx |-> idx, end |-> end]
       ELSE IF new_offset < old_offset
            THEN [shown_urls |-> mark_current_headline_shown(shown, hs, idx),
                  idx |-> 0, end |-> FirstEnd(segs)]
            ELSE [shown_urls |-> shown, idx |-> idx, end |-> end]
  ELSE [shown_urls |-> shown, idx |-> idx, end |-> end]

\* the segments whose end the discrete offset moves past when the offset
\* goes from off to off + amount over a buffer of len units
PassedBy(segs, off, amount, len) ==
  { i \in DOMAIN segs :
      \E p \in (Floor(off) + 1)..Floor(off + amount) :
          p % (len \div Sub) = segs[i].end % (len \div Sub) }

\* -------------------------------------------------------------- queries
\* a window without the extra character
get_visible_text_short(width) ==
  IF ticker_chars = <<>> THEN <<>>
  ELSE LET len == Len(ticker_chars)
           base_offset == Floor(offset)
       IN [ i \in 1..width |-> ticker_chars[((base_offset + (i - 1)) % len) + 1] ]

\* a window that starts one character late
get_visible_text_shifted(width) ==
  IF ticker_chars = <<>> THEN <<>>
  ELSE LET len == Len(ticker_chars)
           base_offset == Floor(offset)
       IN [ i \in 1..(width + 1) |-> ticker_chars[((base_offset + i) % len) + 1] ]

\* a window that starts further right the faster the ticker is
get_visible_text_by_speed(width) ==
  IF ticker_chars = <<>> THEN <<>>
  ELSE LET len == Len(ticker_chars)
           base_offset == Floor(offset) + speed
       IN [ i \in 1..(width + 1) |-> ticker_chars[((base_offset + (i - 1)) % len) + 1] ]

\* lines 250-252: the fraction of the offset, in units of 1/Sub character
get_fractional_offset == offset - Floor(offset) * Sub

\* lines 256-271
get_visible_text(width) ==
  IF ticker_chars = <<>> THEN <<>>
  ELSE LET len == Len(ticker_chars)
           base_offset == Floor(offset)
       IN [ i \in 1..(width + 1) |-> ticker_chars[((base_offset + (i - 1)) % len) + 1] ]

Min(a, b) == IF a < b THEN a ELSE b

\* usize::saturating_sub
SatSub(a, b) == IF a > b THEN a - b ELSE 0

\* the natural placement alone
SegmentPlacements_unwrapped(segment, width, len, base_offset) ==
  IF segment.start < base_offset + width /\ segment.end > base_offset
  THEN << [start |-> SatSub(segment.start, base_offset),
           end |-> Min(segment.end - base_offset, width),
           url |-> segment.url] >>
  ELSE <<>>

\* placements whose end is not cut at the width
SegmentPlacements_unclipped(segment, width, len, base_offset) ==
  LET vis_start == base_offset
      vis_end == base_offset + width
      Place(wrap_offset) ==
        LET seg_start == segment.start + wrap_offset
            seg_end == segment.end + wrap_offset
        IN IF seg_start < vis_end /\ seg_end > vis_start
           THEN LET start_in_view == SatSub(seg_start, vis_start)
                    end_in_view == seg_end - vis_start
                IN IF start_in_view < width /\ end_in_view > start_in_view
                   THEN << [start |-> start_in_view, end |-> end_in_view,
                            url |-> segment.url] >>
                   ELSE <<>>
           ELSE <<>>
  IN Place(0) \o Place(len)

\* the ranges one segment contributes: its natural and its wrapped placement
SegmentPlacements(segment, width, len, base_offset) ==
  LET vis_start == base_offset
      vis_end == base_offset + width
      Place(wrap_offset) ==
        LET seg_start == segment.start + wrap_offset
            seg_end == segment.end + wrap_offset
        IN IF seg_start < vis_end /\ seg_end > vis_start
           THEN LET start_in_view == SatSub(seg_start, vis_start)
                    end_in_view == Min(seg_end - vis_start, width)
                IN IF start_in_view < width /\ end_in_view > start_in_view
                   THEN << [start |-> start_in_view, end |-> end_in_view,
                            url |-> segment.url] >>
                   ELSE <<>>
           ELSE <<>>
  IN Place(0) \o Place(len)

\* a scan that emits the last segment first
RECURSIVE VisibleFrom_reversed(_, _, _, _, _)
VisibleFrom_reversed(segs, k, width, len, base_offset) ==
  IF k > Len(segs) THEN <<>>
  ELSE VisibleFrom_reversed(segs, k + 1, width, len, base_offset)
         \o SegmentPlacements(segs[k], width, len, base_offset)

\* lines 283-307
RECURSIVE VisibleFrom(_, _, _, _, _)
VisibleFrom(segs, k, width, len, base_offset) ==
  IF k > Len(segs) THEN <<>>
  ELSE SegmentPlacements(segs[k], width, len, base_offset)
         \o VisibleFrom(segs, k + 1, width, len, base_offset)

get_visible_segments(width) ==
  IF ticker_chars = <<>> THEN <<>>
  ELSE VisibleFrom(segments, 1, width, Len(ticker_chars), Floor(offset))

\* the scan with the end of a range taken as part of it
RECURSIVE FirstCovering_closed(_, _)
FirstCovering_closed(vis, x) ==
  IF vis = <<>> THEN None
  ELSE IF x >= Head(vis).start /\ x =< Head(vis).end THEN Head(vis).url
  ELSE FirstCovering_closed(Tail(vis), x)

RECURSIVE FirstCovering(_, _)
FirstCovering(vis, x) ==
  IF vis = <<>> THEN None
  ELSE IF x >= Head(vis).start /\ x < Head(vis).end THEN Head(vis).url
  ELSE FirstCovering(Tail(vis), x)

get_url_at_position(x, width) == FirstCovering(get_visible_segments(width), x)

\* ------------------------------------------------------ the feeds file
\* the longest list of lines in a feeds file
MaxLines == 2

Http == << "h", "t", "t", "p", ":", "/", "/" >>
Https == << "h", "t", "t", "p", "s", ":", "/", "/" >>

\* the lines a feeds file is made of
LineSamples ==
  { Https \o << "a" >>,
    Http \o << "b", " ", "t" >>,
    << " ", "\t" >> \o Https \o << "c", " " >>,
    << "#", " ", "c" >>,
    << >>,
    << " ", " " >>,
    << "f", "t", "p", ":", "/", "/", "d" >>,
    << " ", "#" >> \o Https \o << "e" >>,
    << "x", " " >> \o Https \o << "f" >>,
    Https \o << "g", "\r" >>,
    Https,
    << "h", "t", "t", "p", ":", "/", "b" >>,
    Https \o << "h", "\f", "t" >>,
    << "\f", "U+00A0" >> \o Http \o << "i", "U+2003" >> }

\* the lines joined with line feeds
RECURSIVE JoinLines(_)
JoinLines(ls) ==
  IF ls = <<>> THEN <<>>
  ELSE IF Len(ls) = 1 THEN ls[1]
  ELSE ls[1] \o << "\n" >> \o JoinLines(Tail(ls))

\* the contents of the feeds files: up to MaxLines lines, with and without a
\* final line feed
FileContents ==
  LET lists == UNION { [1..n -> LineSamples] : n \in 0..MaxLines }
  IN { JoinLines(ls) : ls \in lists }
       \cup { JoinLines(ls) \o << "\n" >> : ls \in lists }

\* the characters with the Unicode property White_Space; those a string of
\* this module cannot hold are written by their code point
WhiteSpace ==
  { "\t", "\n", "U+000B", "\f", "\r", " ", "U+0085", "U+00A0", "U+1680",
    "U+2000", "U+2001", "U+2002", "U+2003", "U+2004", "U+2005", "U+2006",
    "U+2007", "U+2008", "U+2009", "U+200A", "U+2028", "U+2029", "U+202F",
    "U+205F", "U+3000" }

\* char::is_whitespace
is_whitespace(c) == c \in WhiteSpace

\* str::lines: split at line feeds, a carriage return before the line feed
\* belongs to the line ending, and a final line ending adds no line
RECURSIVE lines(_, _)
lines(content, line) ==
  IF content = <<>>
  THEN IF line = <<>> THEN <<>> ELSE << line >>
  ELSE IF Head(content) = "\n"
       THEN << IF line # <<>> /\ line[Len(line)] = "\r"
               THEN SubSeq(line, 1, Len(line) - 1) ELSE line >>
              \o lines(Tail(content), <<>>)
       ELSE lines(Tail(content), Append(line, Head(content)))

RECURSIVE trim_start(_)
trim_start(line) ==
  IF line # <<>> /\ is_whitespace(Head(line)) THEN trim_start(Tail(line)) ELSE line

RECURSIVE trim_end(_)
trim_end(line) ==
  IF line # <<>> /\ is_whitespace(line[Len(line)])
  THEN trim_end(SubSeq(line, 1, Len(line) - 1)) ELSE line

\* str::trim
trim(line) == trim_end(trim_start(line))

\* str::starts_with
starts_with(text, prefix) ==
  Len(text) >= Len(prefix) /\ SubSeq(text, 1, Len(prefix)) = prefix

\* the characters up to the first whitespace
RECURSIVE take_token(_)
take_token(line) ==
  IF line = <<>> \/ is_whitespace(Head(line)) THEN <<>>
  ELSE << Head(line) >> \o take_token(Tail(line))

\* a url part that is the whole line
url_part_whole_line(line) == line

\* line.split_whitespace().next().unwrap_or(line)
url_part(line) ==
  LET rest == trim_start(line)
  IN IF rest = <<>> THEN line ELSE take_token(rest)

\* what one line of the file adds to the urls
line_urls(raw) ==
  LET line == trim(raw)
  IN IF line # <<>> /\ ~starts_with(line, << "#" >>)
     THEN LET url == url_part(line)
          IN IF starts_with(url, Http) \/ starts_with(url, Https)
             THEN << url >> ELSE <<>>
     ELSE <<>>

\* ----------------------------------------------------------------- Init
\* Ticker::new
new ==
  /\ headlines = <<>>
  /\ ticker_text = <<>>
  /\ ticker_chars = <<>>
  /\ segments = <<>>
  /\ offset = 0
  /\ speed \in Speeds
  /\ \E c \in Configs : /\ rotation_mode = c[1]
                         /\ delimiter = c[2]
                         /\ show_source = c[3]
  /\ paused = FALSE
  /\ shown_urls = {}
  /\ current_headline_idx = 0
  /\ current_headline_end = 0
  /\ op = "new"
  /\ sorted = <<>>
  /\ shown_before = {}
  /\ passed = {}

\* parse_feeds_file has not been called
feeds_idle ==
  /\ feeds_file = None
  /\ feeds_lines = <<>>
  /\ feeds_urls = <<>>
  /\ feeds_result = "idle"

\* no driver runs
driver_idle ==
  /\ pc = "idle"
  /\ ret = "idle"
  /\ guards = <<>>
  /\ calls = [methods |-> {}, guard |-> "none"]
  /\ running = FALSE
  /\ terminal_focused = TRUE
  /\ mouse_y = None
  /\ ticker_row = 0
  /\ pause_mode = "Never"
  /\ show_status_bar = FALSE
  /\ refresh_shown = {}
  /\ all_headlines = <<>>

\* a new ticker
Init == new /\ feeds_idle /\ driver_idle

\* -------------------------------------------------------------- actions
\* set_headlines from line 91 on: s is the list as the sort left it
set_headlines(s) ==
    LET rec == Reconcile(s, shown_urls, rotation_mode)
        built == rebuild_ticker_text(rec.headlines, delimiter, show_source, ticker_chars)
    IN /\ sorted' = s
       /\ shown_before' = shown_urls
       /\ headlines' = rec.headlines
       /\ shown_urls' = rec.shown_urls
       /\ ticker_text' = built.ticker_text
       /\ ticker_chars' = built.ticker_chars
       /\ segments' = built.segments
       /\ offset' = ResetOffset(offset, built.ticker_chars)
       /\ current_headline_idx' = 0
       /\ current_headline_end' = FirstEnd(built.segments)
       /\ passed' = {}
       /\ op' = "set_headlines"
       /\ UNCHANGED << speed, paused, config >>

\* a tick without the early return
tick_unguarded(delta) ==
  /\ op' = "tick"
  /\ sorted' = <<>>
  /\ shown_before' = {}
  /\ LET old_offset == Floor(offset)
         len == Len(ticker_chars) * Sub
         moved == Advance(offset, delta * speed, len)
         t == Track(rotation_mode, headlines, segments, shown_urls,
                    current_headline_idx, current_headline_end,
                    old_offset, Floor(moved))
     IN /\ (moved < len \/ moved =< MaxOffset * Sub)
        /\ offset' = moved
        /\ shown_urls' = t.shown_urls
        /\ current_headline_idx' = t.idx
        /\ current_headline_end' = t.end
        /\ passed' = passed \cup PassedBy(segments, offset, delta * speed, len)
  /\ UNCHANGED << headlines, ticker_text, ticker_chars, segments, speed, paused, config >>

tick(delta) ==
  /\ op' = "tick"
  /\ sorted' = <<>>
  /\ shown_before' = {}
  /\ IF paused \/ ticker_chars = <<>>
     THEN UNCHANGED << offset, shown_urls, current_headline_idx,
                       current_headline_end, passed >>
     ELSE LET old_offset == Floor(offset)
              len == Len(ticker_chars) * Sub
              moved == Advance(offset, delta * speed, len)
              t == Track(rotation_mode, headlines, segments, shown_urls,
                         current_headline_idx, current_headline_end,
                         old_offset, Floor(moved))
          IN /\ (moved < len \/ moved =< MaxOffset * Sub)
             /\ offset' = moved
             /\ shown_urls' = t.shown_urls
             /\ current_headline_idx' = t.idx
             /\ current_headline_end' = t.end
             /\ passed' = passed \cup PassedBy(segments, offset, delta * speed, len)
  /\ UNCHANGED << headlines, ticker_text, ticker_chars, segments, speed, paused, config >>

pause ==
  /\ paused' = TRUE
  /\ UNCHANGED << op, sorted, shown_before >>
  /\ UNCHANGED << headlines, ticker_text, ticker_chars, segments, offset, speed,
                  shown_urls, current_headline_idx, current_headline_end, passed, config >>

\* a resume that pauses
resume_pauses ==
  /\ paused' = TRUE
  /\ UNCHANGED << op, sorted, shown_before >>
  /\ UNCHANGED << headlines, ticker_text, ticker_chars, segments, offset, speed,
                  shown_urls, current_headline_idx, current_headline_end, passed, config >>

resume ==
  /\ paused' = FALSE
  /\ UNCHANGED << op, sorted, shown_before >>
  /\ UNCHANGED << headlines, ticker_text, ticker_chars, segments, offset, speed,
                  shown_urls, current_headline_idx, current_headline_end, passed, config >>

toggle_pause ==
  /\ paused' = ~paused
  /\ UNCHANGED << op, sorted, shown_before >>
  /\ UNCHANGED << headlines, ticker_text, ticker_chars, segments, offset, speed,
                  shown_urls, current_headline_idx, current_headline_end, passed, config >>

set_speed(s) ==
  /\ speed' = s
  /\ UNCHANGED << op, sorted, shown_before >>
  /\ UNCHANGED << headlines, ticker_text, ticker_chars, segments, offset, paused,
                  shown_urls, current_headline_idx, current_headline_end, passed, config >>

\* set_headlines(input, sort) for every input and sort mode: lines 66-89 sort
\* the input and the rest of the function acts on the sorted list
SetHeadlines == \E s \in SortedLists : set_headlines(s)
Tick == \E delta \in Deltas : tick(delta)
SetSpeed == \E s \in Speeds : set_speed(s)

Next ==
  \/ SetHeadlines /\ UNCHANGED << feeds_vars, driver_vars >>
  \/ Tick /\ UNCHANGED << feeds_vars, driver_vars >>
  \/ pause /\ UNCHANGED << feeds_vars, driver_vars >>
  \/ resume /\ UNCHANGED << feeds_vars, driver_vars >>
  \/ toggle_pause /\ UNCHANGED << feeds_vars, driver_vars >>
  \/ SetSpeed /\ UNCHANGED << feeds_vars, driver_vars >>

Spec == Init /\ [][Next]_vars

\* ------------------------------------------------------ parse_feeds_file
\* fs::read_to_string: an unreadable file ends the call with an error
read_to_string ==
  /\ feeds_result = "idle"
  /\ IF feeds_file = None
     THEN /\ feeds_result' = "Err"
          /\ UNCHANGED << feeds_lines, feeds_urls >>
     ELSE /\ feeds_result' = "reading"
          /\ feeds_lines' = lines(feeds_file[1], <<>>)
          /\ feeds_urls' = <<>>
  /\ UNCHANGED << feeds_file, ticker_vars, driver_vars >>

\* one line goes through the iterator chain
parse_line ==
  /\ feeds_result = "reading" /\ feeds_lines # <<>>
  /\ feeds_urls' = feeds_urls \o line_urls(Head(feeds_lines))
  /\ feeds_lines' = Tail(feeds_lines)
  /\ UNCHANGED << feeds_file, feeds_result, ticker_vars, driver_vars >>

\* collect and Ok(urls)
collect ==
  /\ feeds_result = "reading" /\ feeds_lines = <<>>
  /\ feeds_result' = "Ok"
  /\ UNCHANGED << feeds_file, feeds_lines, feeds_urls, ticker_vars, driver_vars >>

\* a feeds file, readable or not, before parse_feeds_file is called
ParseInit ==
  /\ new /\ driver_idle
  /\ feeds_file \in { None } \cup { Some(c) : c \in FileContents }
  /\ feeds_lines = <<>>
  /\ feeds_urls = <<>>
  /\ feeds_result = "idle"

ParseNext ==
  \/ read_to_string
  \/ parse_line
  \/ collect

ParseSpec == ParseInit /\ [][ParseNext]_vars

\* ------------------------------------------------------------ the driver
\* App: the event loop of app.rs and its use of the ticker's RwLock.  Every
\* acquisition, every call on the ticker and every release is one step.
MaxKeySpeed == 3
MaxFrameDelta == 1
MaxPerFeed == 1
MaxTotal == 1
SpeedStep == 2
SpeedCap == 100
SpeedFloor == 1

PauseModes == { "Hover", "Focus", "Never" }
Rows == { 0, 1 }
TerminalHeights == { 4 }
TerminalWidths == { 0, MaxWidth }
FrameDeltas == 1..MaxFrameDelta

\* entries of a parsed feed: the title, the links and the two dates of each
EntryA == [title |-> Some(<<"a">>), links |-> <<>>, published |-> None, updated |-> None]
EntryBC == [title |-> Some(<<"b", "c">>), links |-> << <<"x">> >>,
            published |-> None, updated |-> Some(MaxDate)]
EntryD == [title |-> Some(<<"d">>), links |-> << <<"y">> >>,
           published |-> None, updated |-> None]
EntryOld == [title |-> Some(<<"d">>), links |-> << <<"y">> >>,
             published |-> Some(0), updated |-> Some(MaxDate)]
EntryBlank == [title |-> Some(<<" ">>), links |-> << <<"x">> >>,
               published |-> None, updated |-> None]
EntryUntitled == [title |-> None, links |-> << <<"x">> >>,
                  published |-> None, updated |-> None]

\* now - max_age on the scale of the dates
Cutoff == 1

\* the Result of fetching and parsing a feed
Ok(feed) == << feed >>
Err == <<>>

\* what the two feeds of feed_urls can answer: a parsed feed, or Err for a
\* feed that cannot be fetched or parsed
FirstFeed ==
  { Ok([title |-> Some(<<"t">>), url |-> <<"x">>, entries |-> <<>>]),
    Ok([title |-> Some(<<"t">>), url |-> <<"x">>,
        entries |-> << EntryUntitled, EntryA, EntryBlank, EntryBC >>]) }
SecondFeed ==
  { Err,
    Ok([title |-> None, url |-> <<"s">>, entries |-> << EntryOld, EntryD >>]) }

Max(a, b) == IF a > b THEN a ELSE b

\* Iterator::take and Vec::truncate
Take(s, n) == SubSeq(s, 1, Min(Len(s), n))

\* feed.title, or the url of a feed without a title
FeedSource(feed) == IF feed.title # None THEN feed.title[1] ELSE feed.url

\* entry.published.or(entry.updated)
EntryDate(entry) == IF entry.published # None THEN entry.published ELSE entry.updated

\* entry.links.first()
EntryUrl(entry) == IF entry.links = <<>> THEN None ELSE Some(Head(entry.links))

\* the closure of filter_map: None for an entry without a title, with a
\* blank title, older than the cutoff or already shown; else its headline
EntryHeadline(entry, source, cutoff, shown) ==
  IF entry.title = None THEN None
  ELSE IF trim(entry.title[1]) = <<>> THEN None
  ELSE IF EntryDate(entry) # None /\ EntryDate(entry)[1] < cutoff THEN None
  ELSE LET h == [title |-> entry.title[1], url |-> EntryUrl(entry),
                 source |-> source, published |-> EntryDate(entry)]
       IN IF Key(h) \in shown THEN None ELSE Some(h)

RECURSIVE FilterMap(_, _, _, _)
FilterMap(entries, source, cutoff, shown) ==
  IF entries = <<>> THEN <<>>
  ELSE EntryHeadline(Head(entries), source, cutoff, shown)
       \o FilterMap(Tail(entries), source, cutoff, shown)

\* a fetch that does not skip the headlines already shown
fetch_feed_keeps_shown(feed, max_items, cutoff, shown) ==
  Take(FilterMap(feed.entries, FeedSource(feed), cutoff, {}), max_items)

\* fetch_feed: the headlines of the entries that pass the filter, each with
\* the source of the feed, the first max_items of them
fetch_feed(feed, max_items, cutoff, shown) ==
  Take(FilterMap(feed.entries, FeedSource(feed), cutoff, shown), max_items)

\* the match in refresh_feeds: a failed feed adds nothing
Fetched(feed, shown) ==
  IF feed = Err THEN <<>> ELSE fetch_feed(feed[1], MaxPerFeed, Cutoff, shown)

NoCall == [methods |-> {}, guard |-> "none"]

\* the guard the task holds on the ticker
Held == IF guards = <<>> THEN "none" ELSE guards[Len(guards)]

\* tokio's RwLock: a writer needs the lock free, a reader needs no writer
CanAcquire(kind) ==
  IF kind = "write" THEN guards = <<>>
  ELSE \A i \in DOMAIN guards : guards[i] = "read"

\* an await that hands out no guard
acquire_nothing(kind, from, to) ==
  /\ pc = from
  /\ pc' = to
  /\ guards' = guards
  /\ calls' = NoCall

\* self.ticker.read().await and self.ticker.write().await: the task waits
\* for ever when the lock cannot be granted, as it is the only task
acquire(kind, from, to) ==
  /\ pc = from
  /\ IF CanAcquire(kind)
     THEN guards' = Append(guards, kind) /\ pc' = to
     ELSE guards' = guards /\ pc' = "blocked"
  /\ calls' = NoCall

\* a guard that is kept beyond its scope
release_keeps(from, to) ==
  /\ pc = from
  /\ pc' = to
  /\ guards' = guards
  /\ calls' = NoCall

\* the guard goes out of scope or is dropped
release(from, to) ==
  /\ pc = from
  /\ guards # <<>>
  /\ guards' = SubSeq(guards, 1, Len(guards) - 1)
  /\ pc' = to
  /\ calls' = NoCall

\* calls of ticker methods through the guard held
call(methods, from, to) ==
  /\ pc = from
  /\ pc' = to
  /\ calls' = [methods |-> methods, guard |-> Held]
  /\ UNCHANGED guards

goto(from, to) ==
  /\ pc = from
  /\ pc' = to
  /\ calls' = NoCall
  /\ UNCHANGED guards

\* Ticker::auto_pause and Ticker::auto_resume touch the pause state only
auto_pause ==
  /\ paused' \in { paused, TRUE }
  /\ UNCHANGED << op, sorted, shown_before >>
  /\ UNCHANGED << headlines, ticker_text, ticker_chars, segments, offset, speed,
                  shown_urls, current_headline_idx, current_headline_end, passed, config >>

auto_resume ==
  /\ paused' \in { paused, FALSE }
  /\ UNCHANGED << op, sorted, shown_before >>
  /\ UNCHANGED << headlines, ticker_text, ticker_chars, segments, offset, speed,
                  shown_urls, current_headline_idx, current_headline_end, passed, config >>

\* what a step leaves alone besides pc, guards and calls
Idle == UNCHANGED << ticker_vars, feeds_vars, app_vars, refresh_vars >>
TickerStep == UNCHANGED << feeds_vars, app_vars, refresh_vars >>

\* refresh_feeds, to return to ret
refresh_feeds ==
  \/ acquire("read", "refresh_read", "refresh_shown") /\ Idle
  \/ /\ call({ "shown_urls" }, "refresh_shown", "refresh_drop")
     /\ refresh_shown' = shown_urls
     /\ UNCHANGED << ticker_vars, feeds_vars, app_vars, ret, all_headlines >>
  \/ release("refresh_drop", "refresh_fetch") /\ Idle
  \/ /\ goto("refresh_fetch", "refresh_write")
     /\ \E first \in FirstFeed, second \in SecondFeed :
           all_headlines' = Take(Fetched(first, refresh_shown)
                                 \o Fetched(second, refresh_shown), MaxTotal)
     /\ UNCHANGED << ticker_vars, feeds_vars, app_vars, ret, refresh_shown >>
  \/ acquire("write", "refresh_write", "refresh_set") /\ Idle
  \/ /\ call({ "set_headlines" }, "refresh_set", "refresh_return")
     /\ \E sort \in SortModes : \E s \in SortResults(all_headlines, sort) :
           set_headlines(s)
     /\ TickerStep
  \/ /\ release("refresh_return", ret)
     /\ refresh_shown' = {}
     /\ all_headlines' = <<>>
     /\ UNCHANGED << ticker_vars, feeds_vars, app_vars, ret >>

\* reload_config when config.reload() reports a change
reload_config ==
  \/ acquire("write", "reload_write", "reload_set") /\ Idle
  \/ /\ call({ "set_speed" }, "reload_set", "reload_drop")
     /\ \E s \in Speeds : set_speed(s)
     /\ TickerStep
  \/ release("reload_drop", "update") /\ Idle

\* speed.saturating_add(2).min(100)
Faster(s) == Min(s + SpeedStep, SpeedCap)

\* speed.saturating_sub(2).max(1)
Slower(s) == Max(SatSub(s, SpeedStep), SpeedFloor)

\* handle_key: q, Esc and ctrl-c; space; + and =; - and _; r; c, with the
\* file unchanged and changed
handle_key ==
  \/ /\ goto("poll", "update")
     /\ running' = FALSE
     /\ UNCHANGED << ticker_vars, feeds_vars, refresh_vars, terminal_focused, mouse_y,
                     ticker_row, pause_mode, show_status_bar >>
  \/ goto("poll", "toggle_write") /\ Idle
  \/ acquire("write", "toggle_write", "toggle_call") /\ Idle
  \/ call({ "toggle_pause" }, "toggle_call", "toggle_drop") /\ toggle_pause /\ TickerStep
  \/ release("toggle_drop", "update") /\ Idle
  \/ Faster(speed) =< MaxKeySpeed /\ goto("poll", "plus_write") /\ Idle
  \/ acquire("write", "plus_write", "plus_speed") /\ Idle
  \/ call({ "speed" }, "plus_speed", "plus_set") /\ Idle
  \/ /\ call({ "set_speed" }, "plus_set", "plus_drop")
     /\ set_speed(Faster(speed))
     /\ TickerStep
  \/ release("plus_drop", "update") /\ Idle
  \/ goto("poll", "minus_write") /\ Idle
  \/ acquire("write", "minus_write", "minus_speed") /\ Idle
  \/ call({ "speed" }, "minus_speed", "minus_set") /\ Idle
  \/ /\ call({ "set_speed" }, "minus_set", "minus_drop")
     /\ set_speed(Slower(speed))
     /\ TickerStep
  \/ release("minus_drop", "update") /\ Idle
  \/ /\ goto("poll", "refresh_read")
     /\ ret' = "update"
     /\ UNCHANGED << ticker_vars, feeds_vars, app_vars, refresh_shown, all_headlines >>
  \/ goto("poll", "update") /\ Idle
  \/ goto("poll", "reload_write") /\ Idle

\* handle_mouse: a move; a left click with the modifier held
handle_mouse ==
  \/ /\ goto("poll", "update")
     /\ \E row \in Rows : mouse_y' = Some(row)
     /\ UNCHANGED << ticker_vars, feeds_vars, refresh_vars, running, terminal_focused,
                     ticker_row, pause_mode, show_status_bar >>
  \/ goto("poll", "click_read") /\ Idle
  \/ acquire("read", "click_read", "click_url") /\ Idle
  \/ /\ \E width \in Widths, column \in Widths :
           call({ "get_url_at_position" }, "click_url",
                IF get_url_at_position(column, width) = None
                THEN "click_drop" ELSE "click_some")
     /\ Idle
  \/ release("click_drop", "update") /\ Idle
  \/ release("click_some", "click_open") /\ Idle
  \/ goto("click_open", "update") /\ Idle

\* handle_event for the events that are neither key nor mouse: FocusGained,
\* FocusLost, and the ones ignored
handle_event ==
  \/ /\ goto("poll", "update")
     /\ terminal_focused' = TRUE
     /\ UNCHANGED << ticker_vars, feeds_vars, refresh_vars, running, mouse_y,
                     ticker_row, pause_mode, show_status_bar >>
  \/ /\ goto("poll", "update")
     /\ terminal_focused' = FALSE
     /\ mouse_y' = None
     /\ UNCHANGED << ticker_vars, feeds_vars, refresh_vars, running,
                     ticker_row, pause_mode, show_status_bar >>
  \/ goto("poll", "update") /\ Idle

\* match self.config.pause_mode
AutoPauses ==
  \/ pause_mode = "Hover" /\ terminal_focused /\ mouse_y = Some(ticker_row)
  \/ pause_mode = "Focus" /\ terminal_focused

\* run: the initial refresh, setup_terminal, the loop (poll, update,
\* refresh when due), the exit and restore_terminal
run ==
  \/ /\ goto("run", "refresh_read")
     /\ ret' = "setup"
     /\ UNCHANGED << ticker_vars, feeds_vars, app_vars, refresh_shown, all_headlines >>
  \/ goto("setup", "loop") /\ Idle
  \/ goto("loop", IF running THEN "poll" ELSE "exit_read") /\ Idle
  \/ goto("poll", "update") /\ Idle
  \/ goto("update", "render_read") /\ Idle
  \/ goto("update", "tick_write") /\ Idle
  \/ acquire("write", "tick_write", "tick_auto") /\ Idle
  \/ /\ IF AutoPauses
        THEN call({ "auto_pause" }, "tick_auto", "tick_call") /\ auto_pause
        ELSE call({ "auto_resume" }, "tick_auto", "tick_call") /\ auto_resume
     /\ TickerStep
  \/ /\ call({ "tick" }, "tick_call", "tick_drop")
     /\ \E delta \in FrameDeltas : tick(delta)
     /\ TickerStep
  \/ release("tick_drop", "refresh_due") /\ Idle
  \/ goto("refresh_due", "render_read") /\ Idle
  \/ /\ goto("refresh_due", "refresh_read")
     /\ ret' = "render_read"
     /\ UNCHANGED << ticker_vars, feeds_vars, app_vars, refresh_shown, all_headlines >>
  \/ acquire("read", "exit_read", "exit_save") /\ Idle
  \/ call({ "save_shown_cache" }, "exit_save", "exit_drop") /\ Idle
  \/ release("exit_drop", "restore") /\ Idle
  \/ goto("restore", "done") /\ Idle

\* size.height.saturating_sub(content_height) / 2
TopPadding(height, show_status) == SatSub(height, IF show_status THEN 2 ELSE 1) \div 2

\* the area the layout gives the ticker widget: the width of the terminal,
\* and one row when a row is left below the padding
WidgetArea(width, height, show_status) ==
  << width, Min(1, SatSub(height, TopPadding(height, show_status))) >>

\* area.width == 0 || area.height == 0
AreaEmpty(area) == area[1] = 0 \/ area[2] = 0

\* render: the size, TickerWidget::render (which returns at once in an empty
\* area), StatusBar::new when the status bar is shown,
\* HyperlinkRenderer::render_ticker_line and flush
render ==
  \/ acquire("read", "render_read", "render_size") /\ Idle
  \/ /\ \E width \in TerminalWidths, height \in TerminalHeights :
           /\ goto("render_size",
                   IF AreaEmpty(WidgetArea(width, height, show_status_bar))
                   THEN "render_empty" ELSE "render_widget")
           /\ ticker_row' = TopPadding(height, show_status_bar)
     /\ UNCHANGED << ticker_vars, feeds_vars, refresh_vars, running, terminal_focused,
                     mouse_y, pause_mode, show_status_bar >>
  \/ /\ call({ "get_visible_text", "get_visible_segments", "get_fractional_offset" },
             "render_widget",
             IF show_status_bar THEN "render_status" ELSE "render_links")
     /\ Idle
  \/ /\ goto("render_empty", IF show_status_bar THEN "render_status" ELSE "render_links")
     /\ Idle
  \/ call({ "headline_count", "is_paused", "speed" }, "render_status", "render_links")
     /\ Idle
  \/ /\ call({ "get_visible_text", "get_visible_segments", "get_fractional_offset" },
             "render_links", "render_drop")
     /\ Idle
  \/ release("render_drop", "loop") /\ Idle

\* the places where ? returns an error: setup_terminal, event::poll,
\* event::read and config.reload, terminal::size in handle_mouse, open_url,
\* terminal.size and terminal.draw in render, render_ticker_line, flush,
\* restore_terminal
IoPoints ==
  { "setup", "poll", "click_url", "click_open", "render_size", "render_widget",
    "render_empty", "render_links", "render_drop", "restore" }

\* the error leaves run; the guards in scope are dropped on the way
IoError ==
  /\ pc \in IoPoints
  /\ pc' = "failed"
  /\ guards' = <<>>
  /\ calls' = NoCall
  /\ Idle

\* the configuration the driver is followed under
DriverConfig == << <<"|">>, FALSE, "Fair" >>

\* App::new, before run
DriverInit ==
  /\ new /\ feeds_idle
  /\ config = DriverConfig
  /\ pc = "run"
  /\ ret = "loop"
  /\ guards = <<>>
  /\ calls = NoCall
  /\ running = TRUE
  /\ terminal_focused = TRUE
  /\ mouse_y = None
  /\ ticker_row = 0
  /\ pause_mode \in PauseModes
  /\ show_status_bar \in BOOLEAN
  /\ refresh_shown = {}
  /\ all_headlines = <<>>

DriverNext ==
  \/ run
  \/ handle_event
  \/ handle_key
  \/ handle_mouse
  \/ refresh_feeds
  \/ reload_config
  \/ render
  \/ IoError

DriverSpec == DriverInit /\ [][DriverNext]_vars

\* ------------------------------------------------- a generation that stays
\* Any history of the ticker, then a last set_headlines, then ticks for ever
\* that each advance the offset by less than one character.  pc tells the
\* two phases apart.
history ==
  /\ pc = "history"
  /\ \/ SetHeadlines
     \/ Tick
     \/ pause
     \/ resume
     \/ toggle_pause
     \/ SetSpeed
  /\ UNCHANGED << feeds_vars, driver_vars >>

\* a tick that advances the offset, by less than one character, in the
\* generation the last set_headlines has left
small_tick ==
  /\ pc = "live" \/ (pc = "history" /\ op = "set_headlines")
  /\ ~paused /\ speed > 0 /\ ticker_chars # <<>>
  /\ \E delta \in Deltas : /\ delta * speed \in 1..(Sub - 1)
                           /\ tick(delta)
  /\ pc' = "live"
  /\ UNCHANGED << feeds_vars, guards, calls, app_vars, refresh_vars >>

LiveInit ==
  /\ new /\ feeds_idle
  /\ rotation_mode = "Fair"
  /\ pc = "history"
  /\ ret = "idle"
  /\ guards = <<>>
  /\ calls = [methods |-> {}, guard |-> "none"]
  /\ running = FALSE
  /\ terminal_focused = TRUE
  /\ mouse_y = None
  /\ ticker_row = 0
  /\ pause_mode = "Never"
  /\ show_status_bar = FALSE
  /\ refresh_shown = {}
  /\ all_headlines = <<>>

LiveNext ==
  \/ history
  \/ small_tick

\* the ticks are applied for ever
LiveSpec == LiveInit /\ [][LiveNext]_vars /\ WF_vars(small_tick)

\* ------------------------------------------------------- the speed keys
\* The + and - keys of handle_key pressed in any order, from any speed the
\* configuration supplies: Config takes the speed as a u32 from the command
\* line or the file, 8 by default, and does not limit it.
MaxConfigSpeed == 104
ConfigSpeeds == 0..MaxConfigSpeed

\* + or =: write guard, speed(), set_speed(speed.saturating_add(2).min(100))
key_plus ==
  /\ pc \in { "keys", "pressed" }
  /\ set_speed(Faster(speed))
  /\ pc' = "pressed"
  /\ UNCHANGED << feeds_vars, guards, calls, app_vars, refresh_vars >>

\* - or _: write guard, speed(), set_speed(speed.saturating_sub(2).max(1))
key_minus ==
  /\ pc \in { "keys", "pressed" }
  /\ set_speed(Slower(speed))
  /\ pc' = "pressed"
  /\ UNCHANGED << feeds_vars, guards, calls, app_vars, refresh_vars >>

\* App::new with a ticker built from the configuration
KeyInit ==
  /\ headlines = <<>>
  /\ ticker_text = <<>>
  /\ ticker_chars = <<>>
  /\ segments = <<>>
  /\ offset = 0
  /\ speed \in ConfigSpeeds
  /\ delimiter = <<"|">>
  /\ show_source = FALSE
  /\ rotation_mode = "Fair"
  /\ paused = FALSE
  /\ shown_urls = {}
  /\ current_headline_idx = 0
  /\ current_headline_end = 0
  /\ op = "new"
  /\ sorted = <<>>
  /\ shown_before = {}
  /\ passed = {}
  /\ feeds_idle
  /\ pc = "keys"
  /\ ret = "idle"
  /\ guards = <<>>
  /\ calls = NoCall
  /\ running = TRUE
  /\ terminal_focused = TRUE
  /\ mouse_y = None
  /\ ticker_row = 0
  /\ pause_mode = "Never"
  /\ show_status_bar = FALSE
  /\ refresh_shown = {}
  /\ all_headlines = <<>>

KeyNext ==
  \/ key_plus
  \/ key_minus

KeySpec == KeyInit /\ [][KeyNext]_vars

\* ------------------------------------------------------------- properties
Fair == rotation_mode = "Fair"

BufferLen == Len(ticker_chars)

Keys(hs) == { Key(hs[i]) : i \in DOMAIN hs }

DistinctKeys(hs) == \A i, j \in DOMAIN hs : Key(hs[i]) = Key(hs[j]) => i = j

\* C1: after a tick on a non-empty buffer the offset lies in [0, buffer_length)
C1_OffsetInRangeAfterTick ==
  (op = "tick" /\ ticker_chars # <<>>) => (0 =< offset /\ offset < BufferLen * Sub)

\* C2: in fair mode, when set_headlines has returned, every key of the
\* shown-set is the identity key of a headline of the new generation
C2_ShownKeysArePresent ==
  (op = "set_headlines" /\ Fair) => shown_urls \subseteq Keys(headlines)

\* a fair set_headlines that dropped a stale key and kept another
C2_Witness ==
  /\ op = "set_headlines" /\ Fair
  /\ shown_urls # {}
  /\ shown_before \ Keys(headlines) # {}

\* C3: in fair mode, a set_headlines whose list has an unshown headline
\* removes from the shown-set exactly the keys of no headline of the new
\* list: a key whose headline is still present, keyed by link or by title,
\* stays
C3_PresentKeysRemain ==
  (op = "set_headlines" /\ Fair /\ Keys(sorted) \ shown_before # {})
     => shown_urls = shown_before \cap Keys(headlines)

\* C4: in fair mode, after set_headlines with an unshown headline in the
\* list, the headlines whose key was not in the shown-set precede those whose
\* key was in it, and each group keeps the order the sort gave it
C4_UnshownFirstInSortOrder ==
  (op = "set_headlines" /\ Fair /\ Keys(sorted) \ shown_before # {})
     => /\ \A i, j \in DOMAIN headlines :
              (i < j /\ Key(headlines[j]) \notin shown_before)
                 => Key(headlines[i]) \notin shown_before
        /\ SelectSeq(headlines, LAMBDA h : Key(h) \notin shown_before)
             = SelectSeq(sorted, LAMBDA h : Key(h) \notin shown_before)
        /\ SelectSeq(headlines, LAMBDA h : Key(h) \in shown_before)
             = SelectSeq(sorted, LAMBDA h : Key(h) \in shown_before)

\* a fair set_headlines of three headlines that moved an unshown headline
\* ahead of two shown ones
C4_Witness ==
  /\ op = "set_headlines" /\ Fair
  /\ Len(headlines) = 3
  /\ Keys(sorted) \ shown_before # {}
  /\ Cardinality(Keys(sorted) \cap shown_before) = 2
  /\ headlines # sorted

\* C5: in fair mode, set_headlines with a non-empty list whose every key is
\* in the shown-set empties the shown-set and takes the sorted list, whole
\* and in its order, as the generation, tracked again from item 0
C5_ExhaustedCycleRestarts ==
  (op = "set_headlines" /\ Fair /\ sorted # <<>> /\ Keys(sorted) \subseteq shown_before)
     => /\ shown_urls = {}
        /\ headlines = sorted
        /\ current_headline_idx = 0

\* a fair set_headlines of several headlines, all of them shown before
C5_Witness ==
  /\ op = "set_headlines" /\ Fair
  /\ Len(sorted) >= 2
  /\ Keys(sorted) \subseteq shown_before

\* C6: in fair mode with headlines of distinct keys, once the discrete offset
\* has moved past the end of every segment of the generation, the shown-set
\* is the set of the keys of all the headlines
C6_AllPassedAllShown ==
  (Fair /\ headlines # <<>> /\ DistinctKeys(headlines) /\ passed = DOMAIN segments)
     => shown_urls = Keys(headlines)

\* C7: after set_headlines with an empty list the character buffer is the
\* placeholder text and the segment map is empty
C7_EmptyListShowsPlaceholder ==
  (op = "set_headlines" /\ headlines = <<>>)
     => (ticker_chars = Placeholder /\ segments = <<>>)

\* the links a range or a segment can carry
Links == { h.url : h \in Items }

\* viewport column c lies in a range returned for the width that carries link
InReturned(width, c, link) ==
  LET vis == get_visible_segments(width)
  IN \E k \in DOMAIN vis : vis[k].start =< c /\ c < vis[k].end /\ vis[k].url = link

\* buffer position p lies in the segment of an item that carries link
InSegment(p, link) ==
  \E i \in DOMAIN segments :
     segments[i].start =< p /\ p < segments[i].end /\ segments[i].url = link

\* the link of the segment that covers buffer position p, None in a gap
LinkAt(p) ==
  LET covering == { i \in DOMAIN segments : segments[i].start =< p /\ p < segments[i].end }
  IN IF covering = {} THEN None ELSE segments[CHOOSE i \in covering : TRUE].url

\* C8 as stated: for every width, column c is inside a returned range with
\* link L exactly when buffer position (floor(offset) + c) mod buffer_length
\* is inside the segment of an item with link L
C8_SegmentsExactForEveryWidth ==
  ticker_chars # <<>> =>
    \A width \in Widths : \A c \in 0..(width - 1) : \A link \in Links :
       InReturned(width, c, link) <=> InSegment((Floor(offset) + c) % BufferLen, link)

\* C8 amended: the same equivalence for the columns c with
\* floor(offset) + c < 2 * buffer_length, the reach of the two placements
C8_SegmentsExactWithinTwoLaps ==
  ticker_chars # <<>> =>
    \A width \in Widths : \A c \in 0..(width - 1) : \A link \in Links :
       Floor(offset) + c < 2 * BufferLen =>
         (InReturned(width, c, link) <=> InSegment((Floor(offset) + c) % BufferLen, link))

\* a viewport that straddles the wrap point and shows a linked segment in
\* its wrapped placement
C8_Witness ==
  /\ ticker_chars # <<>>
  /\ Floor(offset) > 0 /\ Floor(offset) < BufferLen
  /\ \E width \in Widths : \E c \in 0..(width - 1) : \E link \in Links \ { None } :
        /\ Floor(offset) + c >= BufferLen
        /\ Floor(offset) + c < 2 * BufferLen
        /\ InReturned(width, c, link)

\* C9 as stated: get_url_at_position(x, width) is the link of the item whose
\* segment covers viewport column x, and none in a gap or on a linkless item
C9_UrlAtEveryColumn ==
  ticker_chars # <<>> =>
    \A width \in Widths : \A x \in 0..(width - 1) :
       get_url_at_position(x, width) = LinkAt((Floor(offset) + x) % BufferLen)

\* C9 amended: the same for the columns x with
\* floor(offset) + x < 2 * buffer_length
C9_UrlAtColumnWithinTwoLaps ==
  ticker_chars # <<>> =>
    \A width \in Widths : \A x \in 0..(width - 1) :
       Floor(offset) + x < 2 * BufferLen =>
         get_url_at_position(x, width) = LinkAt((Floor(offset) + x) % BufferLen)

\* one viewport in which a column past the wrap point resolves to a link and
\* a column in a separator gap resolves to none
C9_Witness ==
  /\ ticker_chars # <<>>
  /\ delimiter # <<>>
  /\ \E width \in Widths : \E x, g \in 0..(width - 1) :
        /\ Floor(offset) + x >= BufferLen
        /\ Floor(offset) + x < 2 * BufferLen
        /\ get_url_at_position(x, width) # None
        /\ Floor(offset) + g < 2 * BufferLen
        /\ \A i \in DOMAIN segments :
              ~(segments[i].start =< (Floor(offset) + g) % BufferLen
                  /\ (Floor(offset) + g) % BufferLen < segments[i].end)
        /\ get_url_at_position(g, width) = None

\* the window of width + 1 characters read from the buffer at the offset
IsWindow(text, width) ==
  /\ Len(text) = width + 1
  /\ \A i \in 0..width :
        text[i + 1] = ticker_chars[((Floor(offset) + i) % BufferLen) + 1]

\* C10 as stated: in every reachable state get_visible_text(width) is the
\* window of width + 1 characters at the offset
C10_WindowInEveryState ==
  \A width \in Widths : IsWindow(get_visible_text(width), width)

\* C10 amended: with a non-empty buffer get_visible_text(width) is that
\* window; with an empty buffer it is the empty text
C10_WindowOfNonEmptyBuffer ==
  \A width \in Widths :
     IF ticker_chars = <<>> THEN get_visible_text(width) = <<>>
     ELSE IsWindow(get_visible_text(width), width)

\* a window that runs over the end of the buffer and wraps to its start
C10_Witness ==
  /\ ticker_chars # <<>>
  /\ Floor(offset) > 0 /\ Floor(offset) < BufferLen
  /\ \E width \in Widths : Floor(offset) + width >= BufferLen /\ width < BufferLen

\* ------------------------------------------------ buffer and segment map
\* the number of characters one headline is displayed with
DisplayLen(h) ==
  Len(h.title) + (IF show_source THEN Len(h.source) + 3 ELSE 0)

RECURSIVE SumDisplayLen(_, _)
SumDisplayLen(hs, k) ==
  IF k > Len(hs) THEN 0 ELSE DisplayLen(hs[k]) + SumDisplayLen(hs, k + 1)

\* the characters one headline is displayed with
ExpectedDisplay(h) ==
  IF show_source THEN <<"[">> \o h.source \o <<"]", " ">> \o h.title
  ELSE h.title

\* the buffer characters in the half-open range [from, to)
BufferSlice(from, to) == SubSeq(ticker_chars, from + 1, to)

\* C11: after set_headlines with a non-empty list of n headlines the buffer
\* length is the sum of the display-text lengths plus n times the delimiter
\* length
C11_BufferLength ==
  (op = "set_headlines" /\ headlines # <<>>) =>
     BufferLen = SumDisplayLen(headlines, 1) + Len(headlines) * Len(delimiter)

\* two headlines with source prefixes and a non-empty delimiter
C11_Witness ==
  /\ op = "set_headlines" /\ Len(headlines) >= 2
  /\ show_source /\ delimiter # <<>>

\* C12: with a non-empty generation of n headlines the segment map has n
\* entries, entry i has start < end <= buffer length and the link of headline
\* i, the entries are sorted by start and do not overlap, and the buffer
\* characters in [start, end) are the display text of headline i
C12_SegmentMapMatchesBuffer ==
  headlines # <<>> =>
     /\ Len(segments) = Len(headlines)
     /\ \A i \in DOMAIN segments :
           /\ segments[i].start < segments[i].end
           /\ segments[i].end =< BufferLen
           /\ segments[i].url = headlines[i].url
           /\ BufferSlice(segments[i].start, segments[i].end)
                = ExpectedDisplay(headlines[i])
     /\ \A i, j \in DOMAIN segments :
           i < j => /\ segments[i].start < segments[j].start
                    /\ segments[i].end =< segments[j].start

\* three headlines shown with their source prefix, after the offset moved
C12_Witness ==
  /\ Len(headlines) = 3 /\ show_source
  /\ op = "tick" /\ offset > 0

\* C13 as stated: every segment after the first starts where the previous
\* one ends
C13_SegmentsAdjacent ==
  \A i \in DOMAIN segments :
     i > 1 => segments[i].start = segments[i - 1].end

\* C13 amended: the first segment starts at 0, every later segment starts one
\* delimiter length after the end of the previous one, and the last segment
\* ends one delimiter length before the end of the buffer
C13_SegmentsOneDelimiterApart ==
  headlines # <<>> =>
     /\ segments[1].start = 0
     /\ \A i \in DOMAIN segments :
           i > 1 => segments[i].start = segments[i - 1].end + Len(delimiter)
     /\ segments[Len(segments)].end + Len(delimiter) = BufferLen

\* two segments separated by a non-empty delimiter
C13_Witness ==
  /\ Len(segments) >= 2 /\ delimiter # <<>>
  /\ segments[2].start > segments[1].end

\* ------------------------------------------------ the returned range list
\* every range of the list starts at or after the end of the range before it
OrderedByPosition(vis) ==
  \A i \in DOMAIN vis : i > 1 => vis[i].start >= vis[i - 1].end

\* no two ranges of the list share a column
PairwiseDisjoint(vis) ==
  \A i, j \in DOMAIN vis :
     i # j => (vis[i].end =< vis[j].start \/ vis[j].end =< vis[i].start)

\* the viewport reaches past the end of the buffer
Straddles(width) == Floor(offset) + width > BufferLen

\* C14 as stated: the list returned by get_visible_segments(width) is
\* ordered by viewport position, also when the viewport straddles the wrap
\* point of the buffer
C14_OrderedByViewportPosition ==
  \A width \in Widths : OrderedByPosition(get_visible_segments(width))

\* C14 amended: the returned ranges never overlap, and the list is ordered by
\* viewport position when the viewport does not reach past the end of the
\* buffer
C14_OrderedUnlessStraddling ==
  \A width \in Widths :
     LET vis == get_visible_segments(width)
     IN /\ PairwiseDisjoint(vis)
        /\ ~Straddles(width) => OrderedByPosition(vis)

\* one offset with two ranges in a viewport inside the buffer and with
\* several ranges in a viewport that straddles the wrap point
C14_Witness ==
  /\ Floor(offset) < BufferLen
  /\ \E width \in Widths :
        ~Straddles(width) /\ Len(get_visible_segments(width)) >= 2
  /\ \E width \in Widths :
        Straddles(width) /\ Len(get_visible_segments(width)) >= 2

\* C15: every range returned by get_visible_segments(width) is non-empty and
\* in viewport-local coordinates, 0 <= start < end <= width
C15_RangesInsideViewport ==
  \A width \in Widths :
     LET vis == get_visible_segments(width)
     IN \A i \in DOMAIN vis :
           /\ 0 =< vis[i].start
           /\ vis[i].start < vis[i].end
           /\ vis[i].end =< width

\* a segment that begins left of the viewport and ends right of it and is
\* returned cut to the whole viewport
C15_Witness ==
  \E width \in Widths, i \in DOMAIN segments :
     /\ segments[i].start < Floor(offset)
     /\ segments[i].end > Floor(offset) + width
     /\ get_visible_segments(width)
          = << [start |-> 0, end |-> width, url |-> segments[i].url] >>

\* C16 as stated: with a viewport width of zero get_visible_text returns the
\* empty text, get_visible_segments returns the empty list and
\* get_url_at_position returns none for every x
C16_ZeroWidthAllEmpty ==
  /\ get_visible_text(0) = <<>>
  /\ get_visible_segments(0) = <<>>
  /\ \A x \in Widths : get_url_at_position(x, 0) = None

\* C16 amended: with a viewport width of zero get_visible_segments returns
\* the empty list and get_url_at_position returns none for every x, while
\* get_visible_text returns the one character at the offset, and the empty
\* text only when the buffer is empty
C16_ZeroWidthOneCharacter ==
  /\ get_visible_text(0)
       = IF ticker_chars = <<>> THEN <<>>
         ELSE << ticker_chars[(Floor(offset) % BufferLen) + 1] >>
  /\ get_visible_segments(0) = <<>>
  /\ \A x \in Widths : get_url_at_position(x, 0) = None

\* the offset is inside a linked segment, so the empty viewport lies within
\* the segment's range
C16_Witness ==
  \E i \in DOMAIN segments :
     /\ segments[i].start < Floor(offset)
     /\ Floor(offset) < segments[i].end
     /\ segments[i].url # None

\* ------------------------------------------------ offset across operations
\* a step taken by set_headlines: the control operations change speed or
\* paused and nothing else
SetHeadlinesStep == op' = "set_headlines" /\ UNCHANGED << speed, paused >>

\* C17: set_headlines keeps the offset when it is inside the new buffer and
\* sets it to zero when it is at or beyond the new buffer's length, and after
\* set_headlines with a non-empty list 0 <= offset < buffer length
C17_OffsetKeptOrReset ==
  [][ SetHeadlinesStep =>
        /\ offset' = IF offset < Len(ticker_chars') * Sub THEN offset ELSE 0
        /\ headlines' # <<>> =>
              (0 =< offset' /\ offset' < Len(ticker_chars') * Sub) ]_vars

\* a non-zero offset that set_headlines kept for a non-empty list
C17_Witness ==
  /\ op = "set_headlines" /\ headlines # <<>>
  /\ offset > 0 /\ offset < BufferLen * Sub

\* the number of ticks in a compared sequence
MaxTicks == 2

\* the sequences of deltas that are compared with their sum
DeltaSeqs == UNION { [1..n -> Deltas] : n \in 1..MaxTicks }

RECURSIVE SumDeltas(_, _)
SumDeltas(ds, k) == IF k > Len(ds) THEN 0 ELSE ds[k] + SumDeltas(ds, k + 1)

\* the offset after the ticks ds[k], ds[k+1], ... applied one by one
RECURSIVE TickEach(_, _, _, _)
TickEach(off, ds, k, len) ==
  IF k > Len(ds) THEN off
  ELSE TickEach(Advance(off, ds[k] * speed, len), ds, k + 1, len)

\* tick moves the offset: not paused and the buffer is not empty
Ticking == ~paused /\ ticker_chars # <<>>

\* C18: a tick whose advance is larger than the buffer length leaves the
\* offset that a tick with the advance modulo the buffer length leaves
C18_LargeAdvanceLikeModulo ==
  Ticking =>
     \A delta \in Deltas :
        LET len == BufferLen * Sub
            amount == delta * speed
        IN amount > len =>
              Advance(offset, amount, len) = Advance(offset, amount % len, len)

\* C19: the offset after a sequence of ticks applied one by one is the offset
\* after one tick with the summed delta
C19_TicksAddUp ==
  Ticking =>
     \A ds \in DeltaSeqs :
        LET len == BufferLen * Sub
        IN TickEach(offset, ds, 1, len)
             = Advance(offset, SumDeltas(ds, 1) * speed, len)

\* C20: in Continuous mode the shown-set stays empty and the order after
\* set_headlines is the order the sort produced
C20_ContinuousKeepsNoBooks ==
  rotation_mode = "Continuous" =>
     /\ shown_urls = {}
     /\ op = "set_headlines" => headlines = sorted

\* in Continuous mode ticks have passed the end of every one of two or more
\* headlines
C20_Witness ==
  /\ rotation_mode = "Continuous" /\ op = "tick"
  /\ Len(headlines) >= 2 /\ passed = DOMAIN segments

\* ------------------------------------------------ tick without effect
\* a step taken by tick: the control operations change speed or paused and
\* nothing else
TickStep == op' = "tick" /\ UNCHANGED << speed, paused >>

\* C21: while the ticker is paused or the buffer is empty a tick changes
\* neither the offset nor the shown-set nor the pointer nor its boundary
C21_TickNoOpWhenPausedOrEmpty ==
  [][ (TickStep /\ (paused \/ ticker_chars = <<>>)) =>
        UNCHANGED << offset, shown_urls, current_headline_idx,
                     current_headline_end >> ]_vars

\* a tick was applied to a ticker whose buffer is empty
C21_Witness ==
  /\ op = "tick" /\ ticker_chars = <<>>
  /\ offset = 0 /\ shown_urls = {}

\* ------------------------------------------------ partial operations
\* an access to position index (counted from 0) of a collection of length len
Access(into, index, len) == [into |-> into, index |-> index, len |-> len]

\* the buffer positions get_visible_text(width) reads
TextIndexes(width) ==
  IF ticker_chars = <<>> THEN {}
  ELSE { Access("ticker_chars", (Floor(offset) + i) % Len(ticker_chars),
                Len(ticker_chars)) : i \in 0..width }

\* the divisors of the modulo operations of get_visible_text
Divisors == IF ticker_chars = <<>> THEN {} ELSE { Len(ticker_chars) }

\* the operands << seg_end, vis_start >> of the unsigned subtractions that
\* get_visible_segments(width) performs
Subtractions(width) ==
  IF ticker_chars = <<>> THEN {}
  ELSE LET vis_start == Floor(offset)
           vis_end == Floor(offset) + width
       IN { << segments[i].end + w, vis_start >> :
              << i, w >> \in { p \in (DOMAIN segments) \X {0, Len(ticker_chars)} :
                                 /\ segments[p[1]].start + p[2] < vis_end
                                 /\ segments[p[1]].end + p[2] > vis_start } }

\* a headline access without the check of the pointer
MarkIndexes_unguarded ==
  { Access("headlines", current_headline_idx, Len(headlines)) }

\* the headline position mark_current_headline_shown reads
MarkIndexes ==
  IF current_headline_idx < Len(headlines)
  THEN { Access("headlines", current_headline_idx, Len(headlines)) }
  ELSE {}

\* the segment position advance_to_next_headline reads
NextIndexes ==
  IF current_headline_idx + 1 < Len(segments)
  THEN { Access("segments", current_headline_idx + 1, Len(segments)) }
  ELSE {}

\* the segment position the wrap branch of tick reads
FirstIndexes ==
  IF segments # <<>> THEN { Access("segments", 0, Len(segments)) } ELSE {}

\* the headline and segment positions tick(delta) reads
TickIndexes(delta) ==
  IF paused \/ ticker_chars = <<>> THEN {}
  ELSE LET old_offset == Floor(offset)
           new_offset == Floor(Advance(offset, delta * speed, BufferLen * Sub))
       IN IF rotation_mode = "Fair" /\ headlines # <<>>
          THEN IF new_offset > old_offset
               THEN IF old_offset < current_headline_end
                       /\ new_offset >= current_headline_end
                    THEN MarkIndexes \cup NextIndexes
                    ELSE {}
               ELSE IF new_offset < old_offset
                    THEN MarkIndexes \cup FirstIndexes
                    ELSE {}
          ELSE {}

\* C22: no operation fails in any reachable state, with any delta, width and
\* column: every index read lies inside the buffer, the Segment Map or the
\* headline list, no modulo is taken by zero, and no unsigned subtraction
\* underflows, also with an empty item list
C22_NoOperationFails ==
  /\ \A d \in Divisors : d # 0
  /\ \A width \in Widths :
        /\ \A r \in TextIndexes(width) : 0 =< r.index /\ r.index < r.len
        /\ \A p \in Subtractions(width) : p[1] >= p[2]
  /\ \A delta \in Deltas :
        \A r \in TickIndexes(delta) : 0 =< r.index /\ r.index < r.len

\* the pointer has moved past the last headline and a tick can wrap
C22_Witness ==
  /\ rotation_mode = "Fair" /\ headlines # <<>> /\ ~paused
  /\ current_headline_idx = Len(headlines)
  /\ \E delta \in Deltas :
        Floor(Advance(offset, delta * speed, BufferLen * Sub)) < Floor(offset)

\* ------------------------------------------------ the new generation
\* the number of times x occurs in the list
Count(x, hs) == Cardinality({ i \in DOMAIN hs : hs[i] = x })

\* the two lists hold the same headlines the same number of times
IsPermutation(a, b) ==
  /\ Len(a) = Len(b)
  /\ \A i \in DOMAIN a : Count(a[i], a) = Count(a[i], b)

\* every list the sort returns is a permutation of the supplied list
SortsArePermutations ==
  \A hs \in HeadlineLists, sort \in SortModes :
     \A s \in SortOutcomes[hs, sort] : IsPermutation(s, hs)

\* C24: set_headlines neither drops nor duplicates headlines: for every sort
\* mode and rotation mode the new generation has the length of the supplied
\* list and is a permutation of it
C24_GenerationIsPermutation ==
  /\ SortsArePermutations
  /\ op = "set_headlines" =>
        /\ Len(headlines) = Len(sorted)
        /\ IsPermutation(headlines, sorted)

\* in fair mode three headlines were reordered by the partition
C24_Witness ==
  /\ op = "set_headlines" /\ rotation_mode = "Fair"
  /\ Len(headlines) = 3 /\ headlines # sorted

\* ------------------------------------------------ pause control
\* the fields that the pause operations leave alone
PauseFrame == << offset, speed, shown_urls, current_headline_idx,
                 current_headline_end >>

\* C25: a new ticker is not paused, pause() makes is_paused() true, resume()
\* makes it false, toggle_pause() flips it, and none of the three changes the
\* offset, the speed, the shown-set or the pointer
C25_PauseControl ==
  /\ ~paused
  /\ [][ /\ pause => paused'
         /\ resume => ~paused'
         /\ toggle_pause => (paused' = ~paused)
         /\ (pause \/ resume \/ toggle_pause) => UNCHANGED PauseFrame ]_vars

\* a ticker that was paused after it had scrolled and marked a headline
C25_Witness ==
  /\ paused /\ offset > 0 /\ shown_urls # {}

\* ------------------------------------------------ queries
\* the results of the four queries for every width and every column up to
\* the width
QueryResults ==
  [ width \in Widths |->
      [ text |-> get_visible_text(width),
        visible |-> get_visible_segments(width),
        urls |-> [ x \in 0..width |-> get_url_at_position(x, width) ],
        fraction |-> get_fractional_offset ] ]

\* a step of an operation other than tick and set_headlines that changes
\* the ticker
ControlStep == (pause \/ resume \/ toggle_pause \/ SetSpeed) /\ vars' # vars

\* C26: the queries change no field, so the result of each query for the
\* same arguments stays the same as long as no tick and no set_headlines
\* intervenes
C26_QueriesRepeatable ==
  [][ ControlStep => QueryResults' = QueryResults ]_vars

\* a paused ticker halfway between two characters with a segment in view
C26_Witness ==
  /\ paused /\ ticker_chars # <<>>
  /\ get_fractional_offset > 0
  /\ get_visible_segments(MaxWidth) # <<>>

\* ------------------------------------------------ boundary tracking
\* a step of tick that moves the offset of a fair ticker with headlines
FairTickStep ==
  /\ TickStep /\ ~paused /\ ticker_chars # <<>>
  /\ rotation_mode = "Fair" /\ headlines # <<>>

\* the discrete offset moves forward
Forward == Floor(offset') > Floor(offset)

\* the discrete offset moves from before the tracked boundary to it or past it
Crosses ==
  /\ Floor(offset) < current_headline_end
  /\ Floor(offset') >= current_headline_end

\* the key of the headline under the pointer
CurrentKey == Key(headlines[current_headline_idx + 1])

\* a forward tick that does not cross the boundary changes neither the
\* shown-set nor the pointer
NoCrossingNoChange ==
  (FairTickStep /\ Forward /\ ~Crosses) =>
     UNCHANGED << shown_urls, current_headline_idx >>

\* C28 as stated: a forward tick that crosses the tracked boundary adds the
\* key of the current item to the shown-set, advances the pointer by one and
\* sets the boundary to the segment end of the next item; a forward tick that
\* does not cross it changes neither the shown-set nor the pointer
C28_CrossingMovesToNextItem ==
  [][ /\ (FairTickStep /\ Forward /\ Crosses) =>
            /\ current_headline_idx < Len(headlines)
            /\ shown_urls' = shown_urls \cup { CurrentKey }
            /\ current_headline_idx' = current_headline_idx + 1
            /\ current_headline_idx + 1 < Len(segments)
            /\ current_headline_end' = segments[current_headline_idx + 2].end
      /\ NoCrossingNoChange ]_vars

\* C28 amended: the crossing tick adds the key of the current item and
\* advances the pointer by one; the boundary becomes the segment end of the
\* next item when there is one, and keeps its value when the current item is
\* the last one; a forward tick that does not cross the boundary changes
\* neither the shown-set nor the pointer
C28_CrossingMovesPointer ==
  [][ /\ (FairTickStep /\ Forward /\ Crosses) =>
            /\ current_headline_idx < Len(headlines)
            /\ shown_urls' = shown_urls \cup { CurrentKey }
            /\ current_headline_idx' = current_headline_idx + 1
            /\ current_headline_end'
                 = IF current_headline_idx + 1 < Len(segments)
                   THEN segments[current_headline_idx + 2].end
                   ELSE current_headline_end
      /\ NoCrossingNoChange ]_vars

\* the pointer has moved past the last of two or more headlines, each marked
\* by a crossing, and the boundary is still the end of the last segment
C28_Witness ==
  /\ rotation_mode = "Fair" /\ op = "tick" /\ Len(headlines) >= 2
  /\ current_headline_idx = Len(headlines)
  /\ current_headline_end = segments[Len(segments)].end
  /\ Keys(headlines) \subseteq shown_urls

\* the advance of tick wraps the offset past the end of the buffer
Wraps ==
  \E delta \in Deltas :
     /\ offset' = Advance(offset, delta * speed, BufferLen * Sub)
     /\ offset + delta * speed >= BufferLen * Sub

\* C29: in fair mode every tick during which the offset wraps past the end of
\* the buffer marks the item under the pointer as shown and resets the pointer
\* to item 0 with the boundary of segment 0, whatever the size of the advance
C29_WrapMarksAndResets ==
  [][ (FairTickStep /\ Wraps) =>
         /\ shown_urls' = mark_current_headline_shown(shown_urls, headlines,
                                                      current_headline_idx)
         /\ current_headline_idx' = 0
         /\ current_headline_end' = segments[1].end ]_vars

\* C30: after every set_headlines the pointer is 0 and the boundary is the
\* end of segment 0 of the rebuilt Segment Map, 0 for an empty list, so that
\* buffer, Segment Map and pointer describe the same generation
C30_PointerResetWithGeneration ==
  op = "set_headlines" =>
     /\ current_headline_idx = 0
     /\ current_headline_end = (IF segments = <<>> THEN 0 ELSE segments[1].end)
     /\ Len(segments) = Len(headlines)
     /\ ticker_chars = ticker_text

\* ------------------------------------------------ the feeds file
\* the least number of a non-empty set
Least(S) == CHOOSE x \in S : \A y \in S : x =< y

\* the first whitespace-delimited token of the line, empty for a blank line
FirstToken(line) ==
  LET solid == { i \in DOMAIN line : ~is_whitespace(line[i]) }
  IN IF solid = {} THEN <<>>
     ELSE LET from == Least(solid)
              gaps == { j \in DOMAIN line : j > from /\ is_whitespace(line[j]) }
              to == IF gaps = {} THEN Len(line) ELSE Least(gaps) - 1
          IN SubSeq(line, from, to)

\* the line is not blank, is no comment, and its token is a web address
Qualifies(line) ==
  LET token == FirstToken(line)
  IN /\ token # <<>>
     /\ token[1] # "#"
     /\ \/ (Len(token) >= 7 /\ SubSeq(token, 1, 7) = Http)
        \/ (Len(token) >= 8 /\ SubSeq(token, 1, 8) = Https)

\* the tokens of the qualifying lines, in file order
RECURSIVE ExpectedUrls(_)
ExpectedUrls(ls) ==
  IF ls = <<>> THEN <<>>
  ELSE (IF Qualifies(Head(ls)) THEN << FirstToken(Head(ls)) >> ELSE <<>>)
         \o ExpectedUrls(Tail(ls))

\* C27: parse_feeds_file returns, in file order, exactly the first
\* whitespace-delimited token of every line that is not blank after trimming,
\* does not start with '#', and whose token starts with http:// or https://
C27_ParsedUrls ==
  feeds_result = "Ok" =>
     feeds_urls = ExpectedUrls(lines(feeds_file[1], <<>>))

\* a file of two lines of which one has a tag after its url and the other is
\* rejected
C27_Witness ==
  /\ feeds_result = "Ok" /\ Len(feeds_urls) = 1
  /\ \E i \in DOMAIN feeds_file[1] :
        /\ feeds_file[1][i] = " "
        /\ i > 1 /\ feeds_file[1][i - 1] = "b"

\* ------------------------------------------------ the driver and the lock
\* the ticker methods that take &mut self, and those that take &self
Mutations == { "set_headlines", "tick", "toggle_pause", "set_speed",
               "auto_pause", "auto_resume" }
Queries == { "get_visible_text", "get_visible_segments", "get_fractional_offset",
             "get_url_at_position", "headline_count", "is_paused", "speed",
             "shown_urls", "save_shown_cache" }

ReadOverlapsWrite ==
  \E i, j \in DOMAIN guards : guards[i] = "read" /\ guards[j] = "write"

\* C23: in the driver every mutating ticker operation runs while holding the
\* write lock and every query runs while holding the read lock, so that a
\* read never overlaps a write
C23_WritesUnderWriteQueriesUnderRead ==
  /\ calls.methods \cap Mutations # {} => calls.guard = "write"
  /\ calls.methods \cap Queries # {} => calls.guard = "read"
  /\ ~ReadOverlapsWrite

\* C23, amended: every mutating ticker operation runs while holding the
\* write lock; every query runs while holding a guard, the read guard
\* everywhere but for speed() in the + and - key handlers, which is called
\* through the write guard taken for the set_speed that follows; the driver
\* holds at most one guard at a time, so that a read never overlaps a write
C23_LockDiscipline ==
  /\ calls.methods \cap Mutations # {} => calls.guard = "write"
  /\ calls.methods \cap Queries # {} =>
        \/ calls.guard = "read"
        \/ calls.guard = "write" /\ calls.methods = { "speed" }
                                 /\ pc \in { "plus_set", "minus_set" }
  /\ calls.methods \subseteq Mutations \cup Queries
  /\ Len(guards) =< 1
  /\ ~ReadOverlapsWrite

\* the + handler has read the speed through the write guard
C23_Witness ==
  /\ calls = [methods |-> { "speed" }, guard |-> "write"]
  /\ pc = "plus_set"
  /\ guards = << "write" >>

\* ------------------------------------------- marking and the scroll clock
\* C31: in fair mode a tick adds the key of a headline to the shown-set only
\* when the offset has, within the current generation, moved past the end
\* of that headline's segment
C31_MarkedOnlyAfterPassed ==
  [][ (TickStep /\ Fair) =>
         \A i \in DOMAIN headlines :
             Key(headlines[i]) \in shown_urls' \ shown_urls => i \in passed' ]_vars

\* C32: in fair mode, whenever the pointer designates an item, the discrete
\* offset is before the tracked boundary and at or after the end of the
\* previous item's segment
C32_PointerAtItemUnderClock ==
  (Fair /\ current_headline_idx < Len(headlines)) =>
     /\ Floor(offset) < current_headline_end
     /\ current_headline_idx > 0 =>
           Floor(offset) >= segments[current_headline_idx].end

\* the pointer stands one past the last item
PastLast == current_headline_idx = Len(headlines)

\* the offset has moved past the end of the last segment in this generation
\* and has not come back before it
LastCrossed ==
  /\ Len(headlines) \in passed
  /\ current_headline_end = segments[Len(segments)].end
  /\ Floor(offset) >= current_headline_end

\* C33: the pointer is at most the number of headlines of the generation,
\* and equals it only after the boundary of the last item was crossed and
\* before the next wrap
C33_PointerAtMostCount ==
  /\ current_headline_idx =< Len(headlines)
  /\ PastLast => LastCrossed

\* C33, amended: the pointer is at most the number of headlines; in a
\* generation with headlines it equals the count only after the boundary of
\* the last item was crossed and before the next wrap, and in an empty
\* generation pointer and count are both 0
C33_PointerAtMostCountOrEmpty ==
  /\ current_headline_idx =< Len(headlines)
  /\ (PastLast /\ headlines # <<>>) => LastCrossed
  /\ headlines = <<>> => current_headline_idx = 0

\* a tick has moved the pointer past the last of two or more headlines
C33_Witness ==
  /\ op = "tick"
  /\ Len(headlines) >= 2
  /\ PastLast
  /\ shown_urls # {}

\* C34: in fair mode, in a generation with headlines that stays, with a
\* positive speed, never paused, under ticks that each advance the offset by
\* less than one character and go on for ever, the shown-set eventually
\* holds the key of every headline, from any offset set_headlines preserved
C34_EveryHeadlineEventuallyShown ==
  (pc = "live" /\ Fair /\ headlines # <<>> /\ DistinctKeys(headlines))
     ~> (Keys(headlines) \subseteq shown_urls)

\* ------------------------------------------------------- the feed refresh
\* refresh_feeds has fetched and has not returned yet
Fetching == pc \in { "refresh_write", "refresh_set", "refresh_return" }

\* C35: refresh_feeds takes the shown-set of the ticker before it fetches;
\* the list it passes to set_headlines holds no headline whose key is in
\* that set and at most max_total headlines
C35_RefreshSkipsShownAndTruncates ==
  /\ Fetching =>
        /\ \A i \in DOMAIN all_headlines : Key(all_headlines[i]) \notin refresh_shown
        /\ Len(all_headlines) =< MaxTotal
  /\ pc = "refresh_return" =>
        /\ op = "set_headlines"
        /\ IsPermutation(sorted, all_headlines)
        /\ shown_before = refresh_shown

\* set_headlines has received a list cut to max_total, fetched with a
\* shown-set that is not empty
C35_Witness ==
  /\ pc = "refresh_return"
  /\ refresh_shown # {}
  /\ Len(all_headlines) = MaxTotal

\* the places where the driver asks for a guard
AcquirePoints ==
  { "refresh_read", "refresh_write", "reload_write", "toggle_write", "plus_write",
    "minus_write", "click_read", "tick_write", "render_read", "exit_read" }

\* C36: the driver never asks for the ticker's lock while it holds a guard
\* on it, so the loop never waits for ever on the ticker lock
C36_NoAcquireWhileHolding ==
  /\ pc \in AcquirePoints => guards = <<>>
  /\ pc # "blocked"

\* refresh_feeds has released its read guard and holds the write guard it
\* asked for afterwards
C36_Witness ==
  /\ pc = "refresh_set"
  /\ guards = << "write" >>
  /\ headlines # <<>>

\* ------------------------------------------------------- the speed keys
\* C37: after any sequence of + and - key presses the speed lies in
\* [1, 100], whatever speed the configuration supplied
C37_SpeedWithinLimits ==
  pc = "pressed" => (speed >= SpeedFloor /\ speed =< SpeedCap)

====
